---- MODULE Spec2Model ----
(***************************************************************************)
(* Min/max column statistics of the Parquet writer and scanner:            *)
(* be/src/exec/parquet-column-stats.inline.h.                              *)
(*                                                                         *)
(* ColumnStats<T> keeps has_values_, min_value_ and max_value_ of the      *)
(* values of one column; Update feeds a value, Merge folds another         *)
(* ColumnStats<T> in, EncodeToThrift writes the plain encoded min and max  *)
(* to a parquet::Statistics record and DecodePlainValue reads one back.    *)
(* ColumnStats<StringValue> holds views (ptr, len) into memory it does not *)
(* own until MaterializeStringValuesToInternalBuffers moves them.         *)
(*                                                                         *)
(* The variable T is the instantiation under study: the generic template   *)
(* at T = int32_t, or the StringValue specialisation.                      *)
(***************************************************************************)
EXTENDS Integers, Sequences, FiniteSets, TLC

VARIABLES
  T,        \* the instantiated type: "int32_t", "Decimal4Value" (with a fixed
            \* encoded size) or "StringValue"; in codec runs also "bool" and
            \* "TimestampValue"
  stats,    \* the ColumnStats<T> objects: has_values_, min_value_, max_value_
            \* (and min_buffer_, max_buffer_ of a ColumnStats<StringValue>)
  seen,     \* history: the values each object has received, by Update or Merge
  merged,   \* history: TRUE once the object has taken values from a Merge
  materialized, \* history: "yes" when the last call on the object was
            \* Materialize, "released" when memory has been released or
            \* rewritten since that call, else "no"
  fills,    \* history: for min_value_ and max_value_ of each object, since
            \* the value was last assigned, whether Materialize was called
            \* and how many of its calls put bytes into the value's buffer
  flushed,  \* history: the object EncodeToThrift was called on (0: none yet)
  foreign,  \* history: <<a, s>> once Merge was called on object a, then in
            \* state s, with a ColumnStats of another type; <<>> before
  out,      \* the parquet::Statistics record EncodeToThrift writes to
  value,    \* codec runs: the value given to EncodePlainValue
  bytes,    \* codec runs: the std::string encoded into and decoded from
  slot,     \* codec runs: the content of *slot of DecodePlainValue
  ret,      \* codec runs: what DecodePlainValue returned
  pc,       \* "stats" in a run of ColumnStats objects; in a codec run, how far
            \* it is: "start", "encoded", "decoded" (a given buffer was decoded)
            \* or "roundtrip" (the encoded value was decoded)
  aborted,  \* TRUE once a DCHECK has failed (the process is gone)
  undefined \* TRUE once freed or rewritten memory has been read: the behaviour
            \* of the program is undefined from there on, and is not followed

vars == <<T, stats, seen, merged, materialized, fills, flushed, foreign, out, value, bytes, slot, ret, pc, aborted, undefined>>

----------------------------------------------------------------------------
(* Bounds of the model.                                                    *)

\* Number of ColumnStats<int32_t> objects.
NumStats == 3
\* The int32_t values fed are -1 .. MaxVal.
MaxVal == 0

\* Number of string slots of the row batch that feeds ColumnStats<StringValue>.
BatchSize == 3

\* A buffer given to DecodePlainValue is up to MaxExtra bytes longer than the
\* encoding of its type.
MaxExtra == 1

\* The encoded size of the decimal column: plain_encoded_value_size_ of a
\* ColumnStats<Decimal4Value>.
FixedSize == 2

Stats == 1..NumStats
\* The two ColumnStats<Decimal4Value> objects of a decimal column.
DecimalStats == 1..2
\* The instantiations of the generic template that are followed.
GenericTypes == {"int32_t", "Decimal4Value"}
Values == (-1)..MaxVal

\* The two ColumnStats<StringValue> objects of a column (in the writer: the
\* page statistics and the row group statistics they are merged into).
StringStats == 1..2

\* The bytes of the strings of the row batch, of which the first BatchSize are
\* fed: "b", "", "ab", "a", "ba", "aa", "bb".
BatchStrings == << <<98>>, <<>>, <<97, 98>>, <<97>>, <<98, 97>>, <<97, 97>>, <<98, 98>> >>
RowBatch == SubSeq(BatchStrings, 1, BatchSize)

\* The content of an int32_t member that has not been assigned (a mark outside
\* Values): reading it yields any value.
Uninit == -(2 ^ 30)

----------------------------------------------------------------------------
(* TimestampValue (runtime/timestamp-value.h): time_ is the time of day in *)
(* nanoseconds (8 bytes) and date_ the day number (4 bytes). Both are kept *)
(* as their bytes, least significant first.                                *)

\* The unsigned number with bytes x is below the one with bytes y (both of
\* the same length, least significant byte first).
BytesLess(x, y) ==
  \E i \in DOMAIN x : x[i] < y[i] /\ \A j \in DOMAIN x : j > i => x[j] = y[j]

\* The bytes of the day numbers of 1400-01-01 (2232400) and 9999-12-31
\* (5373484), the first and the last date of boost::gregorian.
MinDayNumber == <<80, 16, 34, 0>>
MaxDayNumber == <<44, 254, 81, 0>>
\* The bytes of 24 hours in nanoseconds: 86400000000000.
NanosPerDay == <<0, 0, 79, 145, 148, 78, 0, 0>>

\* TimestampValue::IsValidDate(): the day number lies in the valid range.
IsValidDate(ts) ==
  ~BytesLess(ts.date_, MinDayNumber) /\ ~BytesLess(MaxDayNumber, ts.date_)

\* The time of day is one of a day: 0 <= time_ < 24 hours.
IsValidTime(ts) == BytesLess(ts.time_, NanosPerDay)

----------------------------------------------------------------------------
(* ParquetPlainEncoder (exec/parquet-common.h): the plain encoding of an   *)
(* int32_t is its four bytes, least significant first; of a TimestampValue *)
(* its twelve bytes, time_ then date_; of a StringValue, a byte array, its *)
(* length in four bytes and then its bytes.                                *)

\* sizeof(int32_t) and sizeof(TimestampValue) in the encoding.
ByteSize_int32 == 4
ByteSize_timestamp == 12

\* sizeof(Decimal4Value).
ByteSize_decimal4 == 4

\* ParquetPlainEncoder::ByteSize<T>(v); of a StringValue it is
\* sizeof(int32_t) + v.len.
ByteSize(t, v) ==
  CASE t = "int32_t" -> ByteSize_int32
    [] t = "Decimal4Value" -> ByteSize_decimal4
    [] t = "TimestampValue" -> ByteSize_timestamp
    [] t = "StringValue" -> ByteSize_int32 + v.len

\* Byte i (1 is the least significant) of the two's complement form of v.
ByteOf(v, i) ==
  IF v >= 0 THEN (v \div (256 ^ (i - 1))) % 256
            ELSE 255 - (((-(v + 1)) \div (256 ^ (i - 1))) % 256)

\* The int32_t whose two's complement bytes, least significant first, are b.
ValueOf(b) ==
  IF b[4] < 128
    THEN b[1] + 256 * b[2] + 65536 * b[3] + 16777216 * b[4]
    ELSE -((255 - b[1]) + 256 * (255 - b[2]) + 65536 * (255 - b[3])
           + 16777216 * (255 - b[4])) - 1

\* ParquetPlainEncoder::Encode of a decimal: the unscaled value in
\* fixed_len_size bytes, most significant first.
DecimalEncode(v, fixed_len_size) ==
  [i \in 1..fixed_len_size |-> ByteOf(v, fixed_len_size + 1 - i)]

\* ParquetPlainEncoder::Encode(v, fixed_len_size, buffer): the bytes written.
PlainEncode(t, v) ==
  IF t = "int32_t" THEN [i \in 1..ByteSize_int32 |-> ByteOf(v, i)]
                   ELSE v.time_ \o v.date_

\* ParquetPlainEncoder::Decode(buffer, buffer_end, fixed_len_size, v):
\* -1 when the buffer is shorter than the value, else the bytes consumed;
\* *v is written only on success.
PlainDecode(t, buffer, old) ==
  IF Len(buffer) < ByteSize(t, old)
    THEN [ret |-> -1, v |-> old]
    ELSE [ret |-> ByteSize(t, old),
          v |-> IF t = "int32_t"
                  THEN ValueOf(SubSeq(buffer, 1, ByteSize_int32))
                  ELSE [time_ |-> SubSeq(buffer, 1, 8),
                        date_ |-> SubSeq(buffer, 9, ByteSize_timestamp)]]

----------------------------------------------------------------------------
(* ColumnStats<T>, the generic template.                                   *)

\* A ColumnStats<T> after construction.
NewStats ==
  [has_values_ |-> FALSE, min_value_ |-> Uninit, max_value_ |-> Uninit,
   plain_encoded_value_size_ |-> -1]

\* std::min(a, b) and std::max(a, b) on T's operator<.
StdMin(a, b) == IF b < a THEN b ELSE a
StdMax(a, b) == IF a < b THEN b ELSE a

\* Update with std::min written where std::max belongs (line 35).
Update_MaxByMin(s, v) ==
  IF ~s.has_values_
    THEN [s EXCEPT !.has_values_ = TRUE, !.min_value_ = v, !.max_value_ = v]
    ELSE [s EXCEPT !.min_value_ = StdMin(s.min_value_, v),
                   !.max_value_ = StdMin(s.max_value_, v)]

\* ColumnStats<T>::Update(v) on the object s.
Update(s, v) ==
  IF ~s.has_values_
    THEN [s EXCEPT !.has_values_ = TRUE, !.min_value_ = v, !.max_value_ = v]
    ELSE [s EXCEPT !.min_value_ = StdMin(s.min_value_, v),
                   !.max_value_ = StdMax(s.max_value_, v)]

\* Merge that takes the other's values whenever the other has some, as if
\* the test of line 44 were always true.
Merge_Overwrite(s, cs) ==
  IF ~cs.has_values_ THEN s
  ELSE [s EXCEPT !.has_values_ = TRUE, !.min_value_ = cs.min_value_,
                 !.max_value_ = cs.max_value_]

\* Merge without the has_values_ = true of line 45.
Merge_HasValuesNotSet(s, cs) ==
  IF ~cs.has_values_ THEN s
  ELSE IF ~s.has_values_
    THEN [s EXCEPT !.min_value_ = cs.min_value_, !.max_value_ = cs.max_value_]
    ELSE [s EXCEPT !.min_value_ = StdMin(s.min_value_, cs.min_value_),
                   !.max_value_ = StdMax(s.max_value_, cs.max_value_)]

\* Merge with std::min and std::max exchanged (lines 49 and 50).
Merge_Exchanged(s, cs) ==
  IF ~cs.has_values_ THEN s
  ELSE IF ~s.has_values_
    THEN [s EXCEPT !.has_values_ = TRUE, !.min_value_ = cs.min_value_,
                   !.max_value_ = cs.max_value_]
    ELSE [s EXCEPT !.min_value_ = StdMax(s.min_value_, cs.min_value_),
                   !.max_value_ = StdMin(s.max_value_, cs.max_value_)]

\* ColumnStats<T>::Merge(other) on the object s, other being a ColumnStats<T>.
Merge(s, cs) ==
  IF ~cs.has_values_ THEN s
  ELSE IF ~s.has_values_
    THEN [s EXCEPT !.has_values_ = TRUE, !.min_value_ = cs.min_value_,
                   !.max_value_ = cs.max_value_]
    ELSE [s EXCEPT !.min_value_ = StdMin(s.min_value_, cs.min_value_),
                   !.max_value_ = StdMax(s.max_value_, cs.max_value_)]

\* BytesNeeded(v) that always asks the encoder, whatever size is configured.
BytesNeededOf_ValueDerived(t, size, v) == ByteSize(t, v)

\* ColumnStats<T>::BytesNeeded(v), size being plain_encoded_value_size_.
BytesNeededOf(t, size, v) == IF size < 0 THEN ByteSize(t, v) ELSE size

\* ColumnStats<T>::EncodePlainValue(v, bytes_needed, out), old being the
\* content of *out before the call: out->resize(bytes_needed) keeps the bytes
\* the string holds and adds zero bytes, and the encoder overwrites the bytes
\* it writes, from the start. (Every caller passes BytesNeeded(v), which is
\* no less than the encoder writes.)
EncodePlainValue(t, v, bytes_needed, old) ==
  LET resized == [i \in 1..bytes_needed |-> IF i <= Len(old) THEN old[i] ELSE 0]
      written == IF t = "Decimal4Value" THEN DecimalEncode(v, bytes_needed)
                                        ELSE PlainEncode(t, v)
  IN [i \in 1..bytes_needed |->
        IF i <= Len(written) THEN written[i] ELSE resized[i]]

\* DCHECK_EQ(bytes_needed, bytes_written) of EncodePlainValue fails.
EncodeSizeMismatch(t, v, bytes_needed) ==
  t # "Decimal4Value" /\ Len(PlainEncode(t, v)) # bytes_needed

\* ColumnStats<T>::BytesNeeded() of the object s.
BytesNeeded(t, s) ==
  BytesNeededOf(t, s.plain_encoded_value_size_, s.min_value_)
  + BytesNeededOf(t, s.plain_encoded_value_size_, s.max_value_)

\* DecodePlainValue that returns the codec's result converted to bool: -1
\* and every count of bytes but 0 are true.
DecodePlainValue_ReturnsCount(t, buffer, old) ==
  [ret |-> PlainDecode(t, buffer, old).ret # 0,
   slot |-> PlainDecode(t, buffer, old).v]

\* ColumnStats<T>::DecodePlainValue(buffer, slot): the return value and the
\* content of *slot afterwards (old is its content before).
DecodePlainValue(t, buffer, old) ==
  IF PlainDecode(t, buffer, old).ret = -1
    THEN [ret |-> FALSE, slot |-> PlainDecode(t, buffer, old).v]
    ELSE [ret |-> TRUE, slot |-> PlainDecode(t, buffer, old).v]

\* EncodePlainValue of bool that resizes the string to bytes_needed, as the
\* generic EncodePlainValue does, and writes the byte at its start.
BoolEncodePlainValue_Resized(v, bytes_needed) ==
  [i \in 1..bytes_needed |-> IF i = 1 /\ v THEN 1 ELSE 0]

\* EncodePlainValue of bool writing the character '0' or '1'.
BoolEncodePlainValue_Ascii(v, bytes_needed) == << IF v THEN 49 ELSE 48 >>

\* ColumnStats<bool>::EncodePlainValue(v, bytes_needed, out): char c = v;
\* out->assign(1, c).
BoolEncodePlainValue(v, bytes_needed) == << IF v THEN 1 ELSE 0 >>

\* ColumnStats<bool>::DecodePlainValue(buffer, slot). DCHECK(buffer.size() == 1)
\* aborts a debug build; a release build reads buffer[0], which of an empty
\* std::string is its terminating zero.
BoolDecodePlainValue(buffer, old, debug) ==
  IF debug /\ Len(buffer) # 1
    THEN [aborts |-> TRUE, ret |-> FALSE, slot |-> old]
    ELSE [aborts |-> FALSE, ret |-> TRUE,
          slot |-> (IF Len(buffer) = 0 THEN 0 ELSE buffer[1]) # 0]

\* ColumnStats<bool>::BytesNeeded(v).
BoolBytesNeededOf(v) == 1

\* ColumnStats<TimestampValue>::DecodePlainValue(buffer, slot).
TimestampDecodePlainValue(buffer, old) ==
  IF PlainDecode("TimestampValue", buffer, old).ret = -1
    THEN [ret |-> FALSE, slot |-> PlainDecode("TimestampValue", buffer, old).v]
    ELSE [ret |-> IsValidDate(PlainDecode("TimestampValue", buffer, old).v),
          slot |-> PlainDecode("TimestampValue", buffer, old).v]

\* What reading a member yields: an unassigned member yields any value.
ReadValue(x) == IF x = Uninit THEN Values ELSE {x}

\* A parquet::Statistics record with no field set.
NewStatistics ==
  [min_value |-> <<>>, max_value |-> <<>>,
   isset |-> [min_value |-> FALSE, max_value |-> FALSE]]

----------------------------------------------------------------------------
(* StringValue (runtime/string-value.h) and the memory its views point at. *)
(* A StringValue is a pointer and a length. A pointer names the memory it  *)
(* points into: a slot of the row batch, or the min_buffer_ or max_buffer_ *)
(* of a ColumnStats<StringValue>. The field dangling is history, not       *)
(* program state: it records that the memory has been released or          *)
(* rewritten since the view was taken. Reading bytes through such a view   *)
(* is undefined behaviour.                                                 *)

NullPtr == [region |-> "null", at |-> 0]
BatchPtr(i) == [region |-> "batch", at |-> i]
MinBufferPtr(a) == [region |-> "min_buffer_", at |-> a]
MaxBufferPtr(a) == [region |-> "max_buffer_", at |-> a]

\* StringValue(): the default constructed value, of a new ColumnStats.
NullString == [ptr |-> NullPtr, len |-> 0, dangling |-> FALSE]
\* The StringValue of slot i of the row batch.
BatchString(i) == [ptr |-> BatchPtr(i), len |-> Len(RowBatch[i]), dangling |-> FALSE]

\* The bytes held by the memory a pointer names, st being the objects.
Deref(p, st) ==
  CASE p.region = "batch" -> RowBatch[p.at]
    [] p.region = "min_buffer_" -> st[p.at].min_buffer_
    [] p.region = "max_buffer_" -> st[p.at].max_buffer_
    [] p.region = "buffer" -> bytes
    [] OTHER -> <<>>

\* The v.len bytes at v.ptr (of a dangling view, whose bytes are never read
\* in a defined step: what is left of them, then zeros).
StringOf(v, st) ==
  [i \in 1..v.len |-> IF i <= Len(Deref(v.ptr, st)) THEN Deref(v.ptr, st)[i] ELSE 0]

\* StringCompare: the first differing byte decides, then the lengths.
StringCompare(x, y) ==
  LET n == IF Len(x) < Len(y) THEN Len(x) ELSE Len(y)
      d == {i \in 1..n : x[i] # y[i]}
  IN IF d = {} THEN Len(x) - Len(y)
     ELSE LET i == CHOOSE k \in d : \A j \in d : k <= j IN x[i] - y[i]

\* StringValue::operator< and operator> of the views v and w.
StringLt(v, w, st) == StringCompare(StringOf(v, st), StringOf(w, st)) < 0
StringGt(v, w, st) == StringCompare(StringOf(v, st), StringOf(w, st)) > 0

\* Comparing v and w reads the first min(v.len, w.len) bytes of both: it is
\* undefined when that reads memory that is gone.
CompareUndefined(v, w) == v.len > 0 /\ w.len > 0 /\ (v.dangling \/ w.dangling)
\* Copying the bytes of v reads v.len bytes.
CopyUndefined(v) == v.len > 0 /\ v.dangling

----------------------------------------------------------------------------
(* ColumnStats<StringValue>; st is all the objects, for the bytes of views *)
(* that point into the buffers of another object.                          *)

\* A ColumnStats<StringValue> after construction.
NewStringStats ==
  [has_values_ |-> FALSE, min_value_ |-> NullString, max_value_ |-> NullString,
   min_buffer_ |-> <<>>, max_buffer_ |-> <<>>, plain_encoded_value_size_ |-> -1]

\* Update of strings without the min_buffer_.Clear() and max_buffer_.Clear()
\* of lines 152 to 162.
StringUpdate_KeepsBuffers(s, v, st) ==
  IF ~s.has_values_
    THEN [s EXCEPT !.has_values_ = TRUE, !.min_value_ = v, !.max_value_ = v]
    ELSE LET s1 == IF StringLt(v, s.min_value_, st)
                     THEN [s EXCEPT !.min_value_ = v]
                     ELSE s
         IN IF StringGt(v, s1.max_value_, st)
              THEN [s1 EXCEPT !.max_value_ = v]
              ELSE s1

\* Update of strings whose line 162 clears min_buffer_ where max_buffer_ is
\* meant.
StringUpdate_ClearsMinForMax(s, v, st) ==
  IF ~s.has_values_
    THEN [s EXCEPT !.has_values_ = TRUE,
                   !.min_value_ = v, !.min_buffer_ = <<>>,
                   !.max_value_ = v, !.max_buffer_ = <<>>]
    ELSE LET s1 == IF StringLt(v, s.min_value_, st)
                     THEN [s EXCEPT !.min_value_ = v, !.min_buffer_ = <<>>]
                     ELSE s
         IN IF StringGt(v, s1.max_value_, st)
              THEN [s1 EXCEPT !.max_value_ = v, !.min_buffer_ = <<>>]
              ELSE s1

\* ColumnStats<StringValue>::Update(v).
StringUpdate(s, v, st) ==
  IF ~s.has_values_
    THEN [s EXCEPT !.has_values_ = TRUE,
                   !.min_value_ = v, !.min_buffer_ = <<>>,
                   !.max_value_ = v, !.max_buffer_ = <<>>]
    ELSE LET s1 == IF StringLt(v, s.min_value_, st)
                     THEN [s EXCEPT !.min_value_ = v, !.min_buffer_ = <<>>]
                     ELSE s
         IN IF StringGt(v, s1.max_value_, st)
              THEN [s1 EXCEPT !.max_value_ = v, !.max_buffer_ = <<>>]
              ELSE s1

StringUpdateUndefined(s, v) ==
  s.has_values_ /\ (CompareUndefined(v, s.min_value_) \/ CompareUndefined(v, s.max_value_))

\* Merge of strings without the min_buffer_.Clear() and max_buffer_.Clear()
\* of lines 182 and 186.
StringMerge_KeepsBuffers(s, cs, st) ==
  IF ~cs.has_values_ THEN s
  ELSE IF ~s.has_values_
    THEN [s EXCEPT !.has_values_ = TRUE,
                   !.min_value_ = cs.min_value_, !.min_buffer_ = <<>>,
                   !.max_value_ = cs.max_value_, !.max_buffer_ = <<>>]
    ELSE LET s1 == IF StringLt(cs.min_value_, s.min_value_, st)
                     THEN [s EXCEPT !.min_value_ = cs.min_value_]
                     ELSE s
         IN IF StringGt(cs.max_value_, s1.max_value_, st)
              THEN [s1 EXCEPT !.max_value_ = cs.max_value_]
              ELSE s1

\* Merge of strings without the early return of line 172.
StringMerge_NoEarlyReturn(s, cs, st) ==
  IF ~s.has_values_
    THEN [s EXCEPT !.has_values_ = TRUE,
                   !.min_value_ = cs.min_value_, !.min_buffer_ = <<>>,
                   !.max_value_ = cs.max_value_, !.max_buffer_ = <<>>]
    ELSE LET s1 == IF StringLt(cs.min_value_, s.min_value_, st)
                     THEN [s EXCEPT !.min_value_ = cs.min_value_, !.min_buffer_ = <<>>]
                     ELSE s
         IN IF StringGt(cs.max_value_, s1.max_value_, st)
              THEN [s1 EXCEPT !.max_value_ = cs.max_value_, !.max_buffer_ = <<>>]
              ELSE s1

\* ColumnStats<StringValue>::Merge(other), other being the
\* ColumnStats<StringValue> cs.
StringMerge(s, cs, st) ==
  IF ~cs.has_values_ THEN s
  ELSE IF ~s.has_values_
    THEN [s EXCEPT !.has_values_ = TRUE,
                   !.min_value_ = cs.min_value_, !.min_buffer_ = <<>>,
                   !.max_value_ = cs.max_value_, !.max_buffer_ = <<>>]
    ELSE LET s1 == IF StringLt(cs.min_value_, s.min_value_, st)
                     THEN [s EXCEPT !.min_value_ = cs.min_value_, !.min_buffer_ = <<>>]
                     ELSE s
         IN IF StringGt(cs.max_value_, s1.max_value_, st)
              THEN [s1 EXCEPT !.max_value_ = cs.max_value_, !.max_buffer_ = <<>>]
              ELSE s1

StringMergeUndefined(s, cs) ==
  /\ cs.has_values_ /\ s.has_values_
  /\ \/ CompareUndefined(cs.min_value_, s.min_value_)
     \/ CompareUndefined(cs.max_value_, s.max_value_)

\* ColumnStatsBase::CopyToBuffer(buffer, value), for each of the two members
\* of object a: the bytes of the value become the buffer's content and the
\* value points at the buffer.
CopyMinToBuffer(s, a, st) ==
  [s EXCEPT !.min_buffer_ = StringOf(s.min_value_, st),
            !.min_value_ = [ptr |-> MinBufferPtr(a), len |-> s.min_value_.len,
                            dangling |-> FALSE]]
CopyMaxToBuffer(s, a, st) ==
  [s EXCEPT !.max_buffer_ = StringOf(s.max_value_, st),
            !.max_value_ = [ptr |-> MaxBufferPtr(a), len |-> s.max_value_.len,
                            dangling |-> FALSE]]

\* Materialize whose second line copies into min_buffer_ again: max_value_
\* is copied over the bytes of min_buffer_ and max_buffer_ stays empty.
Materialize_MaxIntoMin(s, a, st) ==
  LET s1 == IF s.min_buffer_ = <<>> THEN CopyMinToBuffer(s, a, st) ELSE s
  IN IF s1.max_buffer_ = <<>>
       THEN [s1 EXCEPT !.min_buffer_ = StringOf(s1.max_value_, st),
                       !.max_value_ = [ptr |-> MinBufferPtr(a),
                                       len |-> s1.max_value_.len,
                                       dangling |-> FALSE]]
       ELSE s1

\* Materialize without line 196: max_value_ is never copied.
Materialize_MinOnly(s, a, st) ==
  IF s.min_buffer_ = <<>> THEN CopyMinToBuffer(s, a, st) ELSE s

\* ColumnStats<StringValue>::MaterializeStringValuesToInternalBuffers() on
\* the object s, which is object a. StringBuffer::IsEmpty() is "holds no bytes".
Materialize(s, a, st) ==
  LET s1 == IF s.min_buffer_ = <<>> THEN CopyMinToBuffer(s, a, st) ELSE s
  IN IF s1.max_buffer_ = <<>> THEN CopyMaxToBuffer(s1, a, st) ELSE s1

MaterializeUndefined(s) ==
  \/ s.min_buffer_ = <<>> /\ CopyUndefined(s.min_value_)
  \/ s.max_buffer_ = <<>> /\ CopyUndefined(s.max_value_)

\* The calls of CopyToBuffer one call of Materialize on s makes: one for each
\* buffer that IsEmpty() (lines 195 and 196).
CopyToBufferCalls(s) ==
  (IF s.min_buffer_ = <<>> THEN 1 ELSE 0) + (IF s.max_buffer_ = <<>> THEN 1 ELSE 0)

\* The bytes one call of Materialize on s copies.
BytesCopied(s) ==
  (IF s.min_buffer_ = <<>> THEN s.min_value_.len ELSE 0)
  + (IF s.max_buffer_ = <<>> THEN s.max_value_.len ELSE 0)

\* ColumnStats<StringValue>::EncodePlainValue(v, bytes_needed, out):
\* out->assign(v.ptr, v.len).
StringEncodePlainValue(v, bytes_needed, st) == StringOf(v, st)

\* ColumnStats<StringValue>::DecodePlainValue(buffer, slot): *slot becomes a
\* view of the whole buffer.
StringDecodePlainValue(buffer) ==
  [ret |-> TRUE,
   slot |-> [ptr |-> [region |-> "buffer", at |-> 0], len |-> Len(buffer),
             dangling |-> FALSE]]

----------------------------------------------------------------------------
(* History of the memory: which views have lost their memory.              *)

\* The view v once the memory named by the pointers in ps is gone.
Invalidate(v, ps) ==
  IF v.ptr \in ps /\ v.len > 0 THEN [v EXCEPT !.dangling = TRUE] ELSE v

\* The objects st once the memory named by the pointers in ps is gone.
InvalidateAll(st, ps) ==
  [b \in DOMAIN st |->
     [st[b] EXCEPT !.min_value_ = Invalidate(st[b].min_value_, ps),
                   !.max_value_ = Invalidate(st[b].max_value_, ps)]]

\* The buffers of object a whose bytes a step from s to t has dropped
\* (StringBuffer::Clear() of a buffer that held bytes).
Dropped(a, s, t) ==
  {p \in {MinBufferPtr(a)} : s.min_buffer_ # <<>> /\ t.min_buffer_ # s.min_buffer_}
  \cup {p \in {MaxBufferPtr(a)} : s.max_buffer_ # <<>> /\ t.max_buffer_ # s.max_buffer_}

\* The history of Materialize once memory has been released or rewritten.
Released(m) == [b \in DOMAIN m |-> IF m[b] = "yes" THEN "released" ELSE m[b]]

\* The objects after a call took object a from stats[a] to t; m is what the
\* call makes of materialized[a].
Commit(a, t, m) ==
  /\ stats' = InvalidateAll([stats EXCEPT ![a] = t], Dropped(a, stats[a], t))
  /\ materialized' =
       [(IF Dropped(a, stats[a], t) = {} THEN materialized ELSE Released(materialized))
          EXCEPT ![a] = m]

\* No call of Materialize since the values were assigned.
NoFills ==
  [min_value_ |-> [called |-> FALSE, filled |-> 0],
   max_value_ |-> [called |-> FALSE, filled |-> 0]]

\* The history c of an object that Update or Merge took from s to t: it
\* starts again for each value the call assigned.
Reassigned(c, s, t) ==
  [min_value_ |-> IF t.min_value_ # s.min_value_ THEN NoFills.min_value_
                                                 ELSE c.min_value_,
   max_value_ |-> IF t.max_value_ # s.max_value_ THEN NoFills.max_value_
                                                 ELSE c.max_value_]

\* The history c of an object that a call of Materialize took from s to t:
\* it was called for both values, and it filled the buffer of each value
\* whose buffer it found empty and left with bytes. (The calls of
\* CopyToBuffer it made are CopyToBufferCalls(s): a call for the empty
\* string fills nothing. Where the view of an empty string points is not
\* recorded: it is wherever the empty buffer it was last copied to is.)
Filled(c, s, t) ==
  [min_value_ |->
     [called |-> TRUE,
      filled |-> IF s.min_buffer_ = <<>> /\ t.min_buffer_ # <<>>
                   THEN c.min_value_.filled + 1 ELSE c.min_value_.filled],
   max_value_ |->
     [called |-> TRUE,
      filled |-> IF s.max_buffer_ = <<>> /\ t.max_buffer_ # <<>>
                   THEN c.max_value_.filled + 1 ELSE c.max_value_.filled]]

\* An object holds a view of memory that is gone.
Dangles(s) == s.min_value_.dangling \/ s.max_value_.dangling

----------------------------------------------------------------------------
(* The operations on the ColumnStats<int32_t> objects.                     *)

codec == <<value, bytes, slot, ret, pc>>

\* A run accumulates and merges, and ends when the column is flushed: one
\* object is encoded into the parquet::Statistics record (or a DCHECK fails,
\* or the behaviour becomes undefined, or Merge was given another type).
Running == ~aborted /\ ~undefined /\ flushed = 0 /\ foreign = <<>>

DoUpdate(a, v) ==
  /\ T \in GenericTypes /\ Running /\ a \in DOMAIN stats
  /\ stats' = [stats EXCEPT ![a] = Update(stats[a], v)]
  /\ seen' = [seen EXCEPT ![a] = @ \cup {v}]
  /\ UNCHANGED <<T, merged, materialized, fills, flushed, foreign, out, aborted, undefined, codec>>

DoMerge(a, b) ==
  /\ T \in GenericTypes /\ Running /\ a \in DOMAIN stats /\ b \in DOMAIN stats
  /\ stats' = [stats EXCEPT ![a] = Merge(stats[a], stats[b])]
  /\ seen' = [seen EXCEPT ![a] = @ \cup seen[b]]
  /\ merged' = [merged EXCEPT ![a] = @ \/ stats[b].has_values_]
  /\ UNCHANGED <<T, materialized, fills, flushed, foreign, out, aborted, undefined, codec>>

\* EncodeToThrift(out): DCHECK(has_values_), and the DCHECK_EQ of
\* EncodePlainValue, abort a debug build and are compiled out of a release
\* build, which goes on to encode the members.
DoEncodeToThrift(a) ==
  /\ T \in GenericTypes /\ Running /\ a \in DOMAIN stats
  /\ flushed' = a
  /\ \E debug \in BOOLEAN, mn \in ReadValue(stats[a].min_value_),
        mx \in ReadValue(stats[a].max_value_) :
       IF debug /\ \/ ~stats[a].has_values_
                   \/ EncodeSizeMismatch(T, mn,
                        BytesNeededOf(T, stats[a].plain_encoded_value_size_, mn))
                   \/ EncodeSizeMismatch(T, mx,
                        BytesNeededOf(T, stats[a].plain_encoded_value_size_, mx))
         THEN aborted' = TRUE /\ out' = out
         ELSE /\ aborted' = aborted
              /\ out' = [min_value |->
                             EncodePlainValue(T, mn,
                               BytesNeededOf(T, stats[a].plain_encoded_value_size_, mn),
                               <<>>),
                           max_value |->
                             EncodePlainValue(T, mx,
                               BytesNeededOf(T, stats[a].plain_encoded_value_size_, mx),
                               <<>>),
                           isset |-> [min_value |-> TRUE, max_value |-> TRUE]]
  /\ UNCHANGED <<T, stats, seen, merged, materialized, fills, foreign, undefined, codec>>

----------------------------------------------------------------------------
(* The operations on the ColumnStats<StringValue> objects.                 *)

\* The step of a call that reads memory that is gone.
BecomeUndefined ==
  /\ undefined' = TRUE
  /\ UNCHANGED <<T, stats, seen, merged, materialized, fills, flushed, foreign, out, aborted, codec>>

\* Update with the string of slot i of the row batch.
DoStringUpdate(a, i) ==
  /\ T = "StringValue" /\ Running
  /\ IF StringUpdateUndefined(stats[a], BatchString(i))
       THEN BecomeUndefined
       ELSE /\ Commit(a, StringUpdate(stats[a], BatchString(i), stats), "no")
            /\ fills' = [fills EXCEPT ![a] =
                 Reassigned(@, stats[a], StringUpdate(stats[a], BatchString(i), stats))]
            /\ seen' = [seen EXCEPT ![a] = @ \cup {RowBatch[i]}]
            /\ UNCHANGED <<T, merged, flushed, foreign, out, aborted, undefined, codec>>

DoStringMerge(a, b) ==
  /\ T = "StringValue" /\ Running
  /\ IF StringMergeUndefined(stats[a], stats[b])
       THEN BecomeUndefined
       ELSE /\ Commit(a, StringMerge(stats[a], stats[b], stats), "no")
            /\ fills' = [fills EXCEPT ![a] =
                 Reassigned(@, stats[a], StringMerge(stats[a], stats[b], stats))]
            /\ seen' = [seen EXCEPT ![a] = @ \cup seen[b]]
            /\ merged' = [merged EXCEPT ![a] = @ \/ stats[b].has_values_]
            /\ UNCHANGED <<T, flushed, foreign, out, aborted, undefined, codec>>

DoMaterialize(a) ==
  /\ T = "StringValue" /\ Running
  /\ IF MaterializeUndefined(stats[a])
       THEN BecomeUndefined
       ELSE /\ Commit(a, Materialize(stats[a], a, stats), "yes")
            /\ fills' = [fills EXCEPT ![a] =
                 Filled(@, stats[a], Materialize(stats[a], a, stats))]
            /\ UNCHANGED <<T, seen, merged, flushed, foreign, out, aborted, undefined, codec>>

\* The row batch is released and its memory reused for the next batch: every
\* view into it has lost its bytes.
ReleaseBatch ==
  /\ T = "StringValue" /\ Running
  /\ stats' = InvalidateAll(stats, {BatchPtr(i) : i \in DOMAIN RowBatch})
  /\ materialized' = Released(materialized)
  /\ UNCHANGED fills
  /\ UNCHANGED <<T, seen, merged, flushed, foreign, out, aborted, undefined, codec>>

DoStringEncodeToThrift(a) ==
  /\ T = "StringValue" /\ Running
  /\ flushed' = a
  /\ \E debug \in BOOLEAN :
       IF debug /\ ~stats[a].has_values_
         THEN aborted' = TRUE /\ UNCHANGED <<out, undefined>>
         ELSE IF CopyUndefined(stats[a].min_value_) \/ CopyUndefined(stats[a].max_value_)
           THEN undefined' = TRUE /\ UNCHANGED <<out, aborted>>
           ELSE /\ UNCHANGED <<aborted, undefined>>
                /\ out' = [min_value |->
                             StringEncodePlainValue(stats[a].min_value_,
                               BytesNeededOf(T, stats[a].plain_encoded_value_size_,
                                             stats[a].min_value_), stats),
                           max_value |->
                             StringEncodePlainValue(stats[a].max_value_,
                               BytesNeededOf(T, stats[a].plain_encoded_value_size_,
                                             stats[a].max_value_), stats),
                           isset |-> [min_value |-> TRUE, max_value |-> TRUE]]
  /\ UNCHANGED <<T, stats, seen, merged, materialized, fills, foreign, codec>>

----------------------------------------------------------------------------
(* Merge with a ColumnStats of another type: the programming error the     *)
(* DCHECK of lines 41 and 169 is there for.                                *)

\* A StringValue read out of an object that holds no StringValue: a pointer
\* to anywhere.
WildString == [ptr |-> [region |-> "wild", at |-> 0], len |-> 1, dangling |-> TRUE]

\* What the static_cast of lines 42 and 170 makes of a ColumnStats of another
\* type: has_values_, a member of the common base class, is read as it is;
\* min_value_ and max_value_ are whatever lies where a T would lie.
OtherTypeAs(t, has) ==
  IF t = "StringValue"
    THEN {[NewStringStats EXCEPT !.has_values_ = has, !.min_value_ = WildString,
                                 !.max_value_ = WildString]}
    ELSE {[NewStats EXCEPT !.has_values_ = has, !.min_value_ = mn, !.max_value_ = mx] :
            mn \in Values, mx \in Values}

\* Merge(other) on object a, other being a ColumnStats of another type with
\* has_values_ = has. DCHECK(dynamic_cast<...>(&other)) aborts a debug build;
\* a release build goes on with the static_cast, whose use is undefined.
DoMergeOtherType(a) ==
  /\ Running /\ a \in DOMAIN stats
  /\ foreign' = <<a, stats[a]>>
  /\ \E debug \in BOOLEAN, has \in BOOLEAN :
       IF debug
         THEN aborted' = TRUE /\ UNCHANGED <<stats, undefined>>
         ELSE /\ aborted' = aborted
              /\ undefined' = TRUE
              /\ \E cs \in OtherTypeAs(T, has) :
                   IF T = "StringValue"
                     THEN stats' = IF StringMergeUndefined(stats[a], cs)
                                     THEN stats
                                     ELSE [stats EXCEPT ![a] = StringMerge(stats[a], cs, stats)]
                     ELSE stats' = [stats EXCEPT ![a] = Merge(stats[a], cs)]
  /\ UNCHANGED <<T, seen, merged, materialized, fills, flushed, out, codec>>

----------------------------------------------------------------------------
(* Codec runs: EncodePlainValue and DecodePlainValue of each type, on a    *)
(* value and on a buffer drawn from samples.                               *)

Types == {"int32_t", "bool", "TimestampValue", "StringValue"}

Int32Samples == Values \cup {258, -2147483647, 2147483647}
\* Times of day: 0, 1 ns, 24 h - 1 ns; 24 h and -1 ns are no times of a day.
TimeSamples ==
  { <<0, 0, 0, 0, 0, 0, 0, 0>>, <<1, 0, 0, 0, 0, 0, 0, 0>>,
    <<255, 255, 78, 145, 148, 78, 0, 0>>, NanosPerDay,
    <<255, 255, 255, 255, 255, 255, 255, 255>> }
\* Day numbers: the first and the last valid one, 1970-01-01; the one before
\* the first, the one after the last, 0 and boost's not_a_date_time.
DateSamples ==
  { MinDayNumber, MaxDayNumber, <<140, 61, 37, 0>>,
    <<79, 16, 34, 0>>, <<45, 254, 81, 0>>, <<0, 0, 0, 0>>, <<254, 255, 255, 255>> }
TimestampSamples == [time_ : TimeSamples, date_ : DateSamples]
ByteSamples == {0, 1, 255}

\* The buffer b cut or padded (with the byte 255) to n bytes.
Resize(b, n) == [i \in 1..n |-> IF i <= Len(b) THEN b[i] ELSE 255]

SampleValues(t) ==
  CASE t = "int32_t" -> Int32Samples
    [] t = "bool" -> BOOLEAN
    [] t = "TimestampValue" -> TimestampSamples
    [] t = "StringValue" -> {BatchString(i) : i \in DOMAIN RowBatch}

SampleBuffers(t) ==
  CASE t = "int32_t" ->
         {Resize(PlainEncode(t, v), n) :
            v \in Int32Samples, n \in 0..(ByteSize_int32 + MaxExtra)}
    [] t = "bool" ->
         UNION {[1..n -> ByteSamples] : n \in 0..(1 + MaxExtra)}
    [] t = "TimestampValue" ->
         {Resize(PlainEncode(t, v), n) :
            v \in TimestampSamples,
            n \in {0, 8} \cup ((ByteSize_timestamp - 1)..(ByteSize_timestamp + MaxExtra))}
    [] t = "StringValue" -> {RowBatch[i] : i \in DOMAIN RowBatch}

\* The content of *slot before the call.
OldSlot(t) ==
  CASE t = "int32_t" -> Uninit
    [] t = "bool" -> FALSE
    [] t = "TimestampValue" -> [time_ |-> NanosPerDay, date_ |-> <<0, 0, 0, 0>>]
    [] t = "StringValue" -> NullString

\* The bytes_needed a codec run passes to EncodePlainValue: BytesNeeded(v),
\* and for bool, whose EncodePlainValue does not read it, other sizes too.
EncodeSizes(t, v) ==
  IF t = "bool" THEN {BoolBytesNeededOf(v)} \cup 0..(1 + MaxExtra)
                ELSE {BytesNeededOf(t, -1, v)}

\* EncodePlainValue(value, bytes_needed, &bytes) of ColumnStats<T>.
CallEncodePlainValue ==
  /\ pc = "start"
  /\ \E bytes_needed \in EncodeSizes(T, value) :
       bytes' =
         CASE T = "bool" -> BoolEncodePlainValue(value, bytes_needed)
           [] T = "StringValue" -> StringEncodePlainValue(value, bytes_needed, stats)
           [] OTHER -> EncodePlainValue(T, value, bytes_needed, bytes)
  /\ pc' = "encoded"
  /\ UNCHANGED <<T, stats, seen, merged, materialized, fills, flushed, foreign, out, value, slot, ret, aborted, undefined>>

\* DecodePlainValue(bytes, &slot) of ColumnStats<T>.
CallDecodePlainValue ==
  /\ pc \in {"start", "encoded"} /\ ~aborted
  /\ pc' = IF pc = "start" THEN "decoded" ELSE "roundtrip"
  /\ CASE T = "bool" ->
            \E debug \in BOOLEAN :
              /\ aborted' = BoolDecodePlainValue(bytes, slot, debug).aborts
              /\ ret' = BoolDecodePlainValue(bytes, slot, debug).ret
              /\ slot' = BoolDecodePlainValue(bytes, slot, debug).slot
       [] T = "TimestampValue" ->
            /\ ret' = TimestampDecodePlainValue(bytes, slot).ret
            /\ slot' = TimestampDecodePlainValue(bytes, slot).slot
            /\ aborted' = aborted
       [] T = "StringValue" ->
            /\ ret' = StringDecodePlainValue(bytes).ret
            /\ slot' = StringDecodePlainValue(bytes).slot
            /\ aborted' = aborted
       [] OTHER ->
            /\ ret' = DecodePlainValue(T, bytes, slot).ret
            /\ slot' = DecodePlainValue(T, bytes, slot).slot
            /\ aborted' = aborted
  /\ UNCHANGED <<T, stats, seen, merged, materialized, fills, flushed, foreign, out, value, bytes, undefined>>

----------------------------------------------------------------------------

Init ==
  /\ T \in GenericTypes \cup {"StringValue"}
  /\ stats = CASE T = "int32_t" -> [a \in Stats |-> NewStats]
               [] T = "Decimal4Value" ->
                    [a \in DecimalStats |->
                       [NewStats EXCEPT !.plain_encoded_value_size_ = FixedSize]]
               [] T = "StringValue" -> [a \in StringStats |-> NewStringStats]
  /\ seen = [a \in DOMAIN stats |-> {}]
  /\ merged = [a \in DOMAIN stats |-> FALSE]
  /\ materialized = [a \in DOMAIN stats |-> "no"]
  /\ fills = [a \in DOMAIN stats |-> NoFills]
  /\ flushed = 0
  /\ foreign = <<>>
  /\ out = NewStatistics
  /\ value = 0 /\ bytes = <<>> /\ slot = 0 /\ ret = FALSE /\ pc = "stats"
  /\ aborted = FALSE
  /\ undefined = FALSE

Next ==
  \/ \E a \in Stats, v \in Values : DoUpdate(a, v)
  \/ \E a \in Stats, b \in Stats : DoMerge(a, b)
  \/ \E a \in Stats : DoEncodeToThrift(a)
  \/ \E a \in StringStats, i \in DOMAIN RowBatch : DoStringUpdate(a, i)
  \/ \E a \in StringStats, b \in StringStats : DoStringMerge(a, b)
  \/ \E a \in StringStats : DoMaterialize(a)
  \/ ReleaseBatch
  \/ \E a \in StringStats : DoStringEncodeToThrift(a)

\* Runs of the ColumnStats objects of one column.
Spec == Init /\ [][Next]_vars

\* Runs in which Merge may also be given a ColumnStats of another type.
NextOtherType == Next \/ \E a \in DOMAIN stats : DoMergeOtherType(a)
SpecOtherType == Init /\ [][NextOtherType]_vars

InitCodec ==
  /\ T \in Types
  /\ stats = <<>> /\ seen = <<>> /\ merged = <<>> /\ materialized = <<>>
  /\ fills = <<>>
  /\ flushed = 0
  /\ foreign = <<>>
  /\ out = NewStatistics
  /\ value \in SampleValues(T)
  /\ bytes \in SampleBuffers(T)
  /\ slot = OldSlot(T)
  /\ ret = FALSE
  /\ pc = "start"
  /\ aborted = FALSE
  /\ undefined = FALSE

NextCodec == CallEncodePlainValue \/ CallDecodePlainValue

\* Runs of the codec: a buffer is decoded, or a value is encoded and the
\* result decoded.
SpecCodec == InitCodec /\ [][NextCodec]_vars


----------------------------------------------------------------------------
(* Properties of the accumulators.                                         *)

\* T's order on the values fed: integers, or strings compared byte by byte.
Leq(x, y) == IF T = "StringValue" THEN StringCompare(x, y) <= 0 ELSE x <= y
Least(S) == CHOOSE x \in S : \A y \in S : Leq(x, y)
Greatest(S) == CHOOSE x \in S : \A y \in S : Leq(y, x)

\* The values min_value_ and max_value_ of the object s stand for.
MinOf(s) == IF T = "StringValue" THEN StringOf(s.min_value_, stats) ELSE s.min_value_
MaxOf(s) == IF T = "StringValue" THEN StringOf(s.max_value_, stats) ELSE s.max_value_

\* The bytes behind both views of the object s are still there (the lifetime
\* rule of the string views has been kept); always so for integers.
Readable(s) == T = "StringValue" => ~Dangles(s)

\* The (has_values, min, max) triple of the object s.
Triple(s) == IF s.has_values_ THEN <<TRUE, MinOf(s), MaxOf(s)>> ELSE <<FALSE>>

\* An object after construction, Update and Merge, of the type T of the run.
Fresh == IF T = "StringValue" THEN NewStringStats ELSE NewStats
SlotOf(x) == CHOOSE i \in DOMAIN RowBatch : RowBatch[i] = x
UpdateOf(s, v) ==
  IF T = "StringValue" THEN StringUpdate(s, BatchString(SlotOf(v)), stats)
                       ELSE Update(s, v)
MergeOf(s, cs) == IF T = "StringValue" THEN StringMerge(s, cs, stats) ELSE Merge(s, cs)

\* One object fed all the values of S through Update.
RECURSIVE UpdateAll(_, _)
UpdateAll(s, S) ==
  IF S = {} THEN s
  ELSE LET v == CHOOSE x \in S : TRUE IN UpdateAll(UpdateOf(s, v), S \ {v})

\* C1: an object fed only through Update, with whatever values in whatever
\* order, has has_values_ set and holds the least and the greatest of the
\* values fed, under T's order; before the first value has_values_ is unset.
C1_UpdateTracksMinMax ==
  \A a \in DOMAIN stats :
    (flushed = 0 /\ ~merged[a] /\ Readable(stats[a])) =>
      IF seen[a] = {} THEN ~stats[a].has_values_
      ELSE /\ stats[a].has_values_
           /\ MinOf(stats[a]) = Least(seen[a])
           /\ MaxOf(stats[a]) = Greatest(seen[a])

\* An object fed two or more different values through Update and nothing else.
C1_Witness ==
  \E a \in DOMAIN stats :
    /\ ~merged[a] /\ Readable(stats[a])
    /\ Cardinality(seen[a]) >= 2
    /\ MinOf(stats[a]) # MaxOf(stats[a])

\* C2: whatever the objects have been fed and merged, each holds the triple
\* of one object fed all its values through Update; the Merge of any two
\* holds the triple of one object fed the values of both, whichever of the
\* two receives; and merging three gives the same triple however grouped.
\* (Stated of the objects before the flush, which leaves them as they are.)
C2_MergeIsUpdateOfAll ==
  \A a \in DOMAIN stats :
    (flushed = 0 /\ Readable(stats[a])) =>
      /\ Triple(stats[a]) = Triple(UpdateAll(Fresh, seen[a]))
      /\ \A b \in DOMAIN stats :
           Readable(stats[b]) =>
             LET ab == MergeOf(stats[a], stats[b]) IN
               /\ Triple(ab) = Triple(UpdateAll(Fresh, seen[a] \cup seen[b]))
               /\ Triple(ab) = Triple(MergeOf(stats[b], stats[a]))
               /\ \A c \in DOMAIN stats :
                    Readable(stats[c]) =>
                      Triple(MergeOf(ab, stats[c]))
                        = Triple(MergeOf(stats[a], MergeOf(stats[b], stats[c])))

\* An object that was merged with another one which had values, and that
\* holds more values than that one.
C2_Witness ==
  \E a, b \in DOMAIN stats :
    /\ a # b /\ merged[a] /\ Readable(stats[a]) /\ Readable(stats[b])
    /\ seen[b] # {} /\ seen[b] \subseteq seen[a] /\ seen[b] # seen[a]
    /\ Triple(stats[a]) # Triple(stats[b])

\* C3: an object with has_values_ set has min_value_ <= max_value_ under the
\* order of its type (of strings: while the bytes behind its views are there).
C3_MinNotAboveMax ==
  \A a \in DOMAIN stats :
    (stats[a].has_values_ /\ Readable(stats[a])) =>
      Leq(MinOf(stats[a]), MaxOf(stats[a]))

\* A merged object whose min_value_ is strictly below its max_value_.
C3_Witness ==
  \E a \in DOMAIN stats :
    /\ stats[a].has_values_ /\ merged[a] /\ Readable(stats[a])
    /\ ~Leq(MaxOf(stats[a]), MinOf(stats[a]))


\* C4: a string object on which Materialize was the last call, through
\* whatever releases of the row batch and rewrites of other objects' buffers
\* came after it, holds no view of memory that is gone: min_value_ and
\* max_value_ point at its own min_buffer_ and max_buffer_, whose bytes are
\* the least and the greatest of the values it was given.
C4_MaterializedOwnsBytes ==
  \A a \in DOMAIN stats :
    (materialized[a] # "no" /\ stats[a].has_values_) =>
      /\ ~Dangles(stats[a])
      /\ stats[a].min_value_.ptr = MinBufferPtr(a)
      /\ stats[a].max_value_.ptr = MaxBufferPtr(a)
      /\ stats[a].min_value_.len = Len(stats[a].min_buffer_)
      /\ stats[a].max_value_.len = Len(stats[a].max_buffer_)
      /\ stats[a].min_buffer_ = Least(seen[a])
      /\ stats[a].max_buffer_ = Greatest(seen[a])

\* An object fed from the row batch through Update, then materialized, and
\* the row batch released after that.
C4_Witness ==
  \E a \in DOMAIN stats :
    /\ materialized[a] = "released" /\ ~merged[a]
    /\ stats[a].has_values_
    /\ stats[a].min_buffer_ # <<>>
    /\ stats[a].min_buffer_ # stats[a].max_buffer_

\* What two calls of Materialize in a row make of object a.
MaterializedOnce(a) == Materialize(stats[a], a, stats)
MaterializedTwice(a) ==
  Materialize(MaterializedOnce(a), a, [stats EXCEPT ![a] = MaterializedOnce(a)])

\* C5, amended: of every string object whose views can be read, empty
\* strings included, a second call of Materialize right after a first changes
\* nothing and copies no byte (for a value that is the empty string it calls
\* CopyToBuffer again, with no byte to copy); after the first the buffers
\* hold the bytes the views stood for and the views stand for the same bytes;
\* and a call on an object whose last call was Materialize changes nothing.
C5_MaterializeIdempotent ==
  \A a \in DOMAIN stats :
    (T = "StringValue" /\ flushed = 0 /\ ~MaterializeUndefined(stats[a])) =>
      /\ MaterializedTwice(a) = MaterializedOnce(a)
      /\ BytesCopied(MaterializedOnce(a)) = 0
      /\ MaterializedOnce(a).min_buffer_ = StringOf(stats[a].min_value_, stats)
      /\ MaterializedOnce(a).max_buffer_ = StringOf(stats[a].max_value_, stats)
      /\ MaterializedOnce(a).min_value_.len = stats[a].min_value_.len
      /\ MaterializedOnce(a).max_value_.len = stats[a].max_value_.len
      /\ MaterializedOnce(a).min_value_.ptr = MinBufferPtr(a)
      /\ MaterializedOnce(a).max_value_.ptr = MaxBufferPtr(a)
      /\ materialized[a] # "no" => MaterializedOnce(a) = stats[a]

\* C5 as stated: a second call of Materialize right after a first, on an
\* object with values, leaves the object as the first left it, with the buffers holding the bytes the
\* views stood for, and performs no copy: it does not call CopyToBuffer.
C5_SecondCallMakesNoCopy ==
  \A a \in DOMAIN stats :
    (T = "StringValue" /\ stats[a].has_values_ /\ ~MaterializeUndefined(stats[a])) =>
      /\ MaterializedTwice(a) = MaterializedOnce(a)
      /\ MaterializedOnce(a).min_buffer_ = StringOf(stats[a].min_value_, stats)
      /\ MaterializedOnce(a).max_buffer_ = StringOf(stats[a].max_value_, stats)
      /\ CopyToBufferCalls(MaterializedOnce(a)) = 0

\* A materialized object whose minimum is the empty string and whose maximum
\* is not: its min_buffer_ is empty after Materialize.
C5_Witness ==
  \E a \in DOMAIN stats :
    /\ T = "StringValue" /\ materialized[a] = "yes"
    /\ stats[a].has_values_
    /\ stats[a].min_value_.len = 0 /\ stats[a].min_value_.ptr = MinBufferPtr(a)
    /\ stats[a].max_buffer_ # <<>>

\* C7: EncodeToThrift on an object without values is stopped by the
\* assertion and sets neither min_value nor max_value of the record.
C7_EmptyRefusesEncode ==
  (flushed # 0 /\ ~stats[flushed].has_values_) => (aborted /\ out = NewStatistics)

\* C8: Merge with an other that has no values leaves the receiving object,
\* with or without values, as it was: has_values_, min_value_, max_value_
\* and, of strings, min_buffer_ and max_buffer_.
C8_MergeOfEmptyIsNoOp ==
  \A a, b \in DOMAIN stats :
    ~stats[b].has_values_ => MergeOf(stats[a], stats[b]) = stats[a]

\* A string object with values and materialized buffers next to an object
\* without values.
C8_Witness ==
  \E a, b \in DOMAIN stats :
    /\ T = "StringValue"
    /\ stats[a].has_values_ /\ ~Dangles(stats[a])
    /\ stats[a].min_buffer_ # <<>> /\ stats[a].max_buffer_ # <<>>
    /\ ~stats[b].has_values_


\* Update(v) of the type T of the run, v being a member of another object.
UpdateWith(s, v) == IF T = "StringValue" THEN StringUpdate(s, v, stats) ELSE Update(s, v)

\* The objects s and t agree on has_values_, on the values of min_value_ and
\* max_value_ and, for strings, on which of the two buffers are empty.
SameStats(s, t) ==
  IF T = "StringValue"
    THEN /\ Triple(s) = Triple(t)
         /\ (s.min_buffer_ = <<>>) = (t.min_buffer_ = <<>>)
         /\ (s.max_buffer_ = <<>>) = (t.max_buffer_ = <<>>)
    ELSE s = t

\* C13: for every receiving object and every other with values, Merge(other)
\* leaves the receiver as Update(other.min_value_) followed by
\* Update(other.max_value_) does.
C13_MergeIsTwoUpdates ==
  \A a, b \in DOMAIN stats :
    (flushed = 0 /\ stats[b].has_values_ /\ Readable(stats[a]) /\ Readable(stats[b])) =>
      SameStats(MergeOf(stats[a], stats[b]),
                UpdateWith(UpdateWith(stats[a], stats[b].min_value_),
                           stats[b].max_value_))

\* A string receiver with materialized buffers and an other whose minimum is
\* below the receiver's: Merge reassigns min_value_ and clears min_buffer_.
C13_Witness ==
  \E a, b \in DOMAIN stats :
    /\ T = "StringValue" /\ a # b
    /\ stats[a].has_values_ /\ stats[b].has_values_
    /\ Readable(stats[a]) /\ Readable(stats[b])
    /\ stats[a].min_buffer_ # <<>> /\ stats[a].max_buffer_ # <<>>
    /\ ~Leq(MinOf(stats[a]), MinOf(stats[b]))
    /\ ~Leq(MaxOf(stats[b]), MinOf(stats[b]))

\* The size of one encoded value of the object s: the configured fixed size
\* when there is one, else the size the encoder derives from the value.
SizeOfValue(s, v) ==
  IF s.plain_encoded_value_size_ >= 0 THEN s.plain_encoded_value_size_
                                      ELSE ByteSize(T, v)

\* C14: EncodeToThrift of an object with values does not abort and writes a
\* min_value of BytesNeeded(min_value_) bytes and a max_value of
\* BytesNeeded(max_value_) bytes, BytesNeeded() bytes in all: for int32_t, for
\* decimals with their fixed size and for strings, unless it has to read
\* string bytes that are gone. (It fails for strings: BytesNeeded(v) is the
\* size of v in the plain encoding, four bytes more than the v.len bytes
\* that EncodePlainValue<StringValue> stores.)
C14_EncodedFieldSizes ==
  (flushed # 0 /\ stats[flushed].has_values_) =>
    /\ ~aborted
    /\ ~undefined =>
         /\ out.isset.min_value /\ out.isset.max_value
         /\ Len(out.min_value) =
              BytesNeededOf(T, stats[flushed].plain_encoded_value_size_,
                            stats[flushed].min_value_)
         /\ Len(out.max_value) =
              BytesNeededOf(T, stats[flushed].plain_encoded_value_size_,
                            stats[flushed].max_value_)
         /\ Len(out.min_value) + Len(out.max_value) = BytesNeeded(T, stats[flushed])

\* C15: BytesNeeded() is the sum of the sizes of min_value_ and max_value_,
\* each the configured fixed size when there is one and else the size the
\* encoder derives from the value; with a fixed size s it is 2 * s.
C15_BytesNeededIsSum ==
  \A a \in DOMAIN stats :
    /\ BytesNeeded(T, stats[a]) =
          SizeOfValue(stats[a], stats[a].min_value_)
          + SizeOfValue(stats[a], stats[a].max_value_)
    /\ stats[a].plain_encoded_value_size_ >= 0 =>
          BytesNeeded(T, stats[a]) = 2 * stats[a].plain_encoded_value_size_

\* A decimal object, which has a fixed size configured, with two values.
C15_Witness ==
  \E a \in DOMAIN stats :
    /\ T = "Decimal4Value" /\ stats[a].plain_encoded_value_size_ = FixedSize
    /\ stats[a].has_values_ /\ stats[a].min_value_ < stats[a].max_value_
    /\ BytesNeeded(T, stats[a]) = 2 * FixedSize

\* A buffer of object a that holds bytes holds the bytes of its value, and
\* the value is a view of that buffer.
OwnsMin(a, s) ==
  s.min_buffer_ # <<>> =>
    /\ s.min_value_ = [ptr |-> MinBufferPtr(a), len |-> Len(s.min_buffer_),
                       dangling |-> FALSE]
    /\ StringOf(s.min_value_, stats) = s.min_buffer_
OwnsMax(a, s) ==
  s.max_buffer_ # <<>> =>
    /\ s.max_value_ = [ptr |-> MaxBufferPtr(a), len |-> Len(s.max_buffer_),
                       dangling |-> FALSE]
    /\ StringOf(s.max_value_, stats) = s.max_buffer_

\* A call that took an object from s to t emptied the buffer of each value
\* it reassigned and left the buffer and the view of each other value alone.
ClearsWhatItReassigns(s, t) ==
  /\ IF t.min_value_ # s.min_value_ THEN t.min_buffer_ = <<>>
                                     ELSE t.min_buffer_ = s.min_buffer_
  /\ IF t.max_value_ # s.max_value_ THEN t.max_buffer_ = <<>>
                                     ELSE t.max_buffer_ = s.max_buffer_

\* C16: in every state of the string objects reached by Update, Merge and
\* Materialize, a buffer that is not empty holds the bytes of its value and
\* the value points at it; and from every such state, every Update and every
\* Merge empties the buffer of each value it reassigns and leaves the buffer
\* and the view of a value it does not reassign unchanged.
C16_BuffersFollowValues ==
  (T = "StringValue" /\ flushed = 0) =>
    \A a \in DOMAIN stats :
      /\ OwnsMin(a, stats[a]) /\ OwnsMax(a, stats[a])
      /\ \A i \in DOMAIN RowBatch :
           ~StringUpdateUndefined(stats[a], BatchString(i)) =>
             ClearsWhatItReassigns(stats[a],
                                   StringUpdate(stats[a], BatchString(i), stats))
      /\ \A b \in DOMAIN stats :
           ~StringMergeUndefined(stats[a], stats[b]) =>
             ClearsWhatItReassigns(stats[a], StringMerge(stats[a], stats[b], stats))

\* After Materialize, an Update has reassigned max_value_ only: min_buffer_
\* still holds the minimum, max_buffer_ is empty and max_value_ is a view of
\* the row batch.
C16_Witness ==
  \E a \in DOMAIN stats :
    /\ T = "StringValue" /\ stats[a].has_values_
    /\ stats[a].min_buffer_ # <<>>
    /\ stats[a].min_value_.ptr = MinBufferPtr(a)
    /\ stats[a].max_buffer_ = <<>>
    /\ stats[a].max_value_.ptr.region = "batch"

\* C17 as stated: at every point of every sequence of Update, Merge and
\* Materialize on the string objects, the calls of Materialize since
\* min_value_ (resp. max_value_) was last assigned have copied that value
\* into its buffer at most once, and exactly once if there has been such a
\* call: once there has been one, the buffer is not empty, so that no later
\* call calls CopyToBuffer for the value again.
C17_CopiedOncePerValue ==
  T = "StringValue" =>
    \A a \in DOMAIN stats :
      stats[a].has_values_ =>
        /\ fills[a].min_value_.filled <= 1
        /\ fills[a].max_value_.filled <= 1
        /\ fills[a].min_value_.called => stats[a].min_buffer_ # <<>>
        /\ fills[a].max_value_.called => stats[a].max_buffer_ # <<>>

\* Since the value v, whose buffer is buffer, was last assigned, the calls
\* of Materialize have put bytes into its buffer at most once; if v has
\* bytes and there has been a call, they have done so once and the buffer
\* holds them, so that no later call calls CopyToBuffer for v again; if v is
\* the empty string, no call has put a byte into the buffer.
FilledOnce(c, v, buffer) ==
  /\ c.filled <= 1
  /\ (c.called /\ v.len > 0) => c.filled = 1 /\ buffer # <<>>
  /\ v.len = 0 => c.filled = 0 /\ buffer = <<>>

\* C17, amended: between two assignments of min_value_ (resp. max_value_),
\* Materialize copies the bytes of the value into its buffer at most once,
\* and exactly once if it is called in between and the value has bytes; for
\* the empty string, whose buffer stays empty, every call of Materialize
\* calls CopyToBuffer again, which copies no byte.
C17_FilledOncePerValue ==
  T = "StringValue" =>
    \A a \in DOMAIN stats :
      stats[a].has_values_ =>
        /\ FilledOnce(fills[a].min_value_, stats[a].min_value_, stats[a].min_buffer_)
        /\ FilledOnce(fills[a].max_value_, stats[a].max_value_, stats[a].max_buffer_)

\* After Materialize on an object whose minimum is the empty string and
\* whose maximum has bytes: the maximum's buffer was filled once, the
\* minimum's never, and another call of Materialize calls CopyToBuffer once
\* more, for the minimum.
C17_Witness ==
  \E a \in DOMAIN stats :
    /\ T = "StringValue" /\ stats[a].has_values_
    /\ stats[a].min_value_.len = 0 /\ stats[a].max_value_.len > 0
    /\ fills[a].min_value_ = [called |-> TRUE, filled |-> 0]
    /\ fills[a].max_value_ = [called |-> TRUE, filled |-> 1]
    /\ stats[a].min_buffer_ = <<>> /\ stats[a].max_buffer_ # <<>>
    /\ CopyToBufferCalls(stats[a]) = 1

\* has_values_ of every object is set exactly when the object has received
\* a value, by Update or by Merge of an other with values.
SetByFirstValue ==
  \A a \in DOMAIN stats : stats[a].has_values_ <=> seen[a] # {}

\* A step leaves has_values_ set where it is set; where it sets it, the
\* object takes the least and the greatest of the values received as
\* min_value_ and max_value_: both the value itself if it is one value.
StaysSet ==
  \A a \in DOMAIN stats :
    /\ stats[a].has_values_ => stats'[a].has_values_
    /\ (~stats[a].has_values_ /\ stats'[a].has_values_ /\ Readable(stats[a])') =>
         /\ MinOf(stats[a])' = Least(seen[a])'
         /\ MaxOf(stats[a])' = Greatest(seen[a])'
         /\ \A v \in seen'[a] :
              seen'[a] = {v} => MinOf(stats[a])' = v /\ MaxOf(stats[a])' = v

\* C19: has_values_ is unset in a new object, is set from the first Update
\* or the first Merge of an other with values on, and no later step (Update,
\* Merge, Materialize, EncodeToThrift, the release of the row batch) unsets
\* it; the step that sets it leaves the first value in both min_value_ and
\* max_value_.
C19_HasValuesStaysSet == []SetByFirstValue /\ [][StaysSet]_vars

\* One object has received its first value, which is both its minimum and
\* its maximum, while another is still as constructed.
C19_Witness ==
  \E a, b \in DOMAIN stats :
    /\ stats[a].has_values_ /\ Cardinality(seen[a]) = 1 /\ Readable(stats[a])
    /\ \A v \in seen[a] : MinOf(stats[a]) = v /\ MaxOf(stats[a]) = v
    /\ ~stats[b].has_values_ /\ stats[b] = Fresh /\ seen[b] = {}

----------------------------------------------------------------------------
(* Properties of EncodePlainValue and DecodePlainValue.                    *)

\* C6: DecodePlainValue of bool returns false for every buffer whose length
\* is not 1, and for a buffer of one byte returns true with the value
\* (byte # 0).
C6_BoolDecodeRejectsBadLength ==
  (T = "bool" /\ pc = "decoded") =>
    /\ ~aborted
    /\ ret = (Len(bytes) = 1)
    /\ ret => slot = (bytes[1] # 0)

\* C12: EncodePlainValue of bool leaves exactly one byte in the string, 1 for
\* true and 0 for false, whatever bytes_needed it is given and whatever the
\* string held before; BytesNeeded of a bool is 1.
C12_BoolEncodesOneByte ==
  (T = "bool" /\ pc = "encoded") =>
    /\ bytes = << IF value THEN 1 ELSE 0 >>
    /\ BoolBytesNeededOf(value) = 1

\* true was encoded into a string: it holds the one byte 1.
C12_Witness == T = "bool" /\ pc = "encoded" /\ value = TRUE /\ bytes = <<1>>

\* What the plain decoder makes of a buffer wide enough for a timestamp.
DecodedTimestamp(b) ==
  [time_ |-> SubSeq(b, 1, 8), date_ |-> SubSeq(b, 9, ByteSize_timestamp)]

\* C9: DecodePlainValue of TimestampValue returns true exactly for the
\* buffers the plain decoder accepts and whose timestamp has a valid date and
\* a valid time of day, and then the slot holds the decoded bytes unconverted.
C9_TimestampDecodeValidates ==
  (T = "TimestampValue" /\ pc = "decoded") =>
    /\ ret = /\ Len(bytes) >= ByteSize_timestamp
             /\ IsValidDate(DecodedTimestamp(bytes))
             /\ IsValidTime(DecodedTimestamp(bytes))
    /\ ret => slot = DecodedTimestamp(bytes)

\* The value the slot holds is the value v.
SlotHolds(v) ==
  IF T = "StringValue" THEN StringOf(slot, stats) = StringOf(v, stats) ELSE slot = v

\* C10: DecodePlainValue of the bytes EncodePlainValue(v, BytesNeeded(v))
\* wrote returns true and leaves v in the slot: of every int32_t, of both
\* booleans, of every timestamp with a valid date, of every string.
C10_RoundTrip ==
  (pc = "roundtrip" /\ (T = "TimestampValue" => IsValidDate(value))) =>
    ~aborted /\ ret /\ SlotHolds(value)

\* The round trip of a boolean, which EncodePlainValue wrote as one byte.
C10_Witness ==
  /\ pc = "roundtrip" /\ T = "bool" /\ value = TRUE
  /\ Len(bytes) = 1 /\ ret /\ slot = TRUE

\* C18: the generic DecodePlainValue, given any buffer, the empty one
\* included, does not abort and returns false exactly when the plain codec
\* returns -1 for the bytes, which it does for a buffer shorter than the
\* type; otherwise it returns true.
C18_DecodeFailureIsFalse ==
  (T = "int32_t" /\ pc = "decoded") =>
    /\ ~aborted
    /\ ret = (PlainDecode(T, bytes, OldSlot(T)).ret # -1)
    /\ ret = (Len(bytes) >= ByteSize(T, OldSlot(T)))

\* The empty buffer was given: the codec returned -1 and DecodePlainValue
\* false.
C18_Witness ==
  /\ T = "int32_t" /\ pc = "decoded" /\ ~aborted
  /\ bytes = <<>> /\ PlainDecode(T, bytes, OldSlot(T)).ret = -1
  /\ ret = FALSE


----------------------------------------------------------------------------
(* Properties of Merge with another type.                                  *)

\* C11: Merge with a ColumnStats of another type fails with the assertion,
\* leaves has_values_, min_value_ and max_value_ of the receiving object as
\* they were, and reads nothing of the other object as if it were of the
\* receiver's type.
C11_OtherTypeAborts ==
  foreign # <<>> =>
    /\ aborted
    /\ ~undefined
    /\ stats[foreign[1]] = foreign[2]

============================================================================
